---------------------------- MODULE Spec2Model ----------------------------
(***************************************************************************)
(* Model of the class-cancellation bulletin API:                           *)
(*   - toHalfWidth and parseCancellationHtml (src/api/parser.ts, and the   *)
(*     copy of both in src/unnamed/part_000),                              *)
(*   - the request handler fetchAndParse (src/unnamed/part_000 with the    *)
(*     8 s abort timer, src/api/index.ts without it).                      *)
(*                                                                         *)
(* A text is a sequence of UTF-16 code units (what a JavaScript string     *)
(* is), so that the code-point arithmetic of toHalfWidth and the character *)
(* classes of the regular expressions are computed, not assumed.           *)
(***************************************************************************)
EXTENDS Integers, Sequences, FiniteSets, TLC

(***************************************************************************)
(* Characters.  Ch names the code units the texts below are written with.  *)
(***************************************************************************)
Ch ==
  [ maru |-> 9673, nijumaru |-> 9678, hishi |-> 9671, hoshi |-> 9734,
    nichi |-> 26085, tei |-> 31243,
    ni |-> 12395, tsu |-> 12388, i |-> 12356, te |-> 12390,
    gen |-> 38480, ko |-> 12467, ma |-> 12510,
    darrow |-> 8658, arrow |-> 8594, eq |-> 61, gt |-> 62, minus |-> 45,
    slash |-> 47, lpar |-> 40, rpar |-> 41,
    wslash |-> 65295, wlpar |-> 65288, wrpar |-> 65289, ka |-> 28779,
    w1 |-> 65297, w6 |-> 65302, d1 |-> 49, d2 |-> 50, d6 |-> 54,
    sp |-> 32, tab |-> 9, wsp |-> 12288, A |-> 65, B |-> 66 ]

\* The offset line 29 subtracts, and the range [！-～] it is applied to.
FullWidthOffset == 65248
FullWidthFirst == 65281
FullWidthLast == 65374

\* /[◉◎◇☆]/
MarkerSymbols == {Ch.maru, Ch.nijumaru, Ch.hishi, Ch.hoshi}

\* SYMBOLS: 休講, 補講, 遠隔, 変更.
SYMBOLS ==
  [ s \in MarkerSymbols |->
      CASE s = Ch.maru -> <<20241, 35611>>
        [] s = Ch.nijumaru -> <<35036, 35611>>
        [] s = Ch.hishi -> <<36960, 38548>>
        [] s = Ch.hoshi -> <<22793, 26356>> ]

\* "その他"
TypeOther == <<12381, 12398, 20182>>

\* "日付不明"
DateUnknown == <<26085, 20184, 19981, 26126>>

\* "日程", "について", "限", "コマ"
WordSchedule == <<Ch.nichi, Ch.tei>>
WordRegarding == <<Ch.ni, Ch.tsu, Ch.i, Ch.te>>
WordPeriod == <<Ch.gen>>
WordSlot == <<Ch.ko, Ch.ma>>

(***************************************************************************)
(* The character classes of ECMAScript regular expressions and of          *)
(* String.prototype.trim.                                                  *)
(***************************************************************************)
\* \s, and the characters trim() removes: WhiteSpace and LineTerminator.
IsSpace(c) ==
  \/ c \in {9, 10, 11, 12, 13, 32, 160, 5760, 8232, 8233, 8239, 8287, 12288, 65279}
  \/ c \in 8192..8202

\* \d
IsDigit(c) == c \in 48..57

\* . (without the s flag): anything but a line terminator.
IsDot(c) == c \notin {10, 13, 8232, 8233}

(***************************************************************************)
(* String primitives.                                                      *)
(***************************************************************************)
\* str.substring(from - 1): the text from position `from` (1-based) on.
Substring(str, from) == SubSeq(str, from, Len(str))

\* str.trim()
RECURSIVE TrimStart(_)
TrimStart(str) ==
  IF str # <<>> /\ IsSpace(str[1]) THEN TrimStart(Tail(str)) ELSE str

RECURSIVE TrimEnd(_)
TrimEnd(str) ==
  IF str # <<>> /\ IsSpace(str[Len(str)])
  THEN TrimEnd(SubSeq(str, 1, Len(str) - 1))
  ELSE str

Trim(str) == TrimEnd(TrimStart(str))

\* str.includes(sub)
Includes(str, sub) ==
  \E k \in 0..(Len(str) - Len(sub)) : SubSeq(str, k + 1, k + Len(sub)) = sub

\* str.replace(/\s/g, "")
RECURSIVE RemoveSpaces(_)
RemoveSpaces(str) ==
  IF str = <<>> THEN <<>>
  ELSE IF IsSpace(str[1]) THEN RemoveSpaces(Tail(str))
  ELSE <<str[1]>> \o RemoveSpaces(Tail(str))

\* parts.join(sep)
RECURSIVE Join(_, _)
Join(parts, sep) ==
  IF parts = <<>> THEN <<>>
  ELSE IF Len(parts) = 1 THEN parts[1]
  ELSE parts[1] \o sep \o Join(Tail(parts), sep)

(***************************************************************************)
(* toHalfWidth: the five replace() calls, applied in the code's order.     *)
(***************************************************************************)
HalfWidthChar(c) ==
  LET r1 == IF c \in FullWidthFirst..FullWidthLast THEN c - FullWidthOffset ELSE c
      r2 == IF r1 = 12288 THEN 32 ELSE r1
      r3 == IF r2 = 65295 THEN 47 ELSE r2
      r4 == IF r3 = 65288 THEN 40 ELSE r3
      r5 == IF r4 = 65289 THEN 41 ELSE r4
  IN r5

toHalfWidth(str) == [k \in 1..Len(str) |-> HalfWidthChar(str[k])]

(***************************************************************************)
(* normalizedText.match(/^(\d{1,2}\/\d{1,2}(?:\(.\))?)/): the length of    *)
(* the match, 0 when there is none.  Each quantifier is greedy; the only   *)
(* backtracking that can succeed is the one computed here.                 *)
(***************************************************************************)
DigitRun(str, from) ==
  IF from <= Len(str) /\ IsDigit(str[from])
  THEN IF from + 1 <= Len(str) /\ IsDigit(str[from + 1]) THEN 2 ELSE 1
  ELSE 0

DateMatchLen(str) ==
  LET n1 == DigitRun(str, 1)
      sl == n1 + 1
      n2 == DigitRun(str, sl + 1)
      e2 == sl + n2
      wd == /\ e2 + 3 <= Len(str)
            /\ str[e2 + 1] = 40
            /\ IsDot(str[e2 + 2])
            /\ str[e2 + 3] = 41
  IN IF n1 >= 1 /\ sl <= Len(str) /\ str[sl] = 47 /\ n2 >= 1
     THEN IF wd THEN e2 + 3 ELSE e2
     ELSE 0

(***************************************************************************)
(* content.split(/\s+/): the pieces between the maximal runs of            *)
(* whitespace, an empty piece before a leading and after a trailing run;   *)
(* "".split(...) is [""].                                                  *)
(***************************************************************************)
RECURSIVE SplitSpacesFrom(_, _)
SplitSpacesFrom(str, cur) ==
  IF str = <<>> THEN <<cur>>
  ELSE IF IsSpace(str[1])
       THEN <<cur>> \o SplitSpacesFrom(TrimStart(str), <<>>)
       ELSE SplitSpacesFrom(Tail(str), Append(cur, str[1]))

SplitSpaces(str) == SplitSpacesFrom(str, <<>>)

(***************************************************************************)
(* subject.split(/\s*(?:⇒|→|=>|->)\s*/).  ArrowLenAt is the length of the  *)
(* arrow at position k (0: none); MatchEndAt is the position after the     *)
(* match that starts at k (0: no match starts at k).                       *)
(***************************************************************************)
ArrowLenAt(str, k) ==
  IF k > Len(str) THEN 0
  ELSE IF str[k] \in {8658, 8594} THEN 1
  ELSE IF str[k] \in {61, 45} /\ k + 1 <= Len(str) /\ str[k + 1] = 62 THEN 2
  ELSE 0

RECURSIVE SkipSpaces(_, _)
SkipSpaces(str, k) ==
  IF k <= Len(str) /\ IsSpace(str[k]) THEN SkipSpaces(str, k + 1) ELSE k

MatchEndAt(str, k) ==
  LET a == SkipSpaces(str, k)
      n == ArrowLenAt(str, a)
  IN IF n = 0 THEN 0 ELSE SkipSpaces(str, a + n)

\* p: start of the current piece; q: where the next match is tried.
RECURSIVE SplitArrowsFrom(_, _, _)
SplitArrowsFrom(str, p, q) ==
  IF q > Len(str) THEN <<SubSeq(str, p, Len(str))>>
  ELSE LET e == MatchEndAt(str, q)
       IN IF e = 0 THEN SplitArrowsFrom(str, p, q + 1)
          ELSE <<SubSeq(str, p, q - 1)>> \o SplitArrowsFrom(str, e, e)

SplitArrows(str) == SplitArrowsFrom(str, 1, 1)

(***************************************************************************)
(* parseCancellationHtml, one paragraph at a time.  A paragraph is what    *)
(* the HTML library hands over: text (p.text(), not yet trimmed) and       *)
(* hasMark (whether a <mark> element is inside it).                        *)
(***************************************************************************)
\* const rawText = p.text().trim()
RawText(p) == Trim(p.text)

\* const normalizedText = toHalfWidth(rawText)
NormalizedText(p) == toHalfWidth(RawText(p))

\* normalizedText.includes("日程") || normalizedText.includes("について")
IsLinkOrDescriptionOnlyRegarding(normalizedText) ==
  Includes(normalizedText, WordRegarding)

IsLinkOrDescription(normalizedText) ==
  Includes(normalizedText, WordSchedule) \/ Includes(normalizedText, WordRegarding)

\* const isDateLine = hasMark || (dateMatch && !isLinkOrDescription)
IsDateLine(p) ==
  \/ p.hasMark
  \/ /\ DateMatchLen(NormalizedText(p)) > 0
     /\ ~IsLinkOrDescription(NormalizedText(p))

\* The value a date line assigns to currentDate.
NextDate(p) ==
  LET n == DateMatchLen(NormalizedText(p))
  IN IF n > 0 THEN SubSeq(NormalizedText(p), 1, n)
     ELSE RemoveSpaces(NormalizedText(p))

\* rawText.match(/^([◉◎◇☆])/)
SymbolMatchUnanchored(rawText) ==
  \E k \in 1..Len(rawText) : rawText[k] \in MarkerSymbols

SymbolMatch(rawText) == rawText # <<>> /\ rawText[1] \in MarkerSymbols

\* let content = rawText.substring(1).trim(); content = toHalfWidth(content)
ContentOf(rawText) == toHalfWidth(Trim(Substring(rawText, 2)))

\* parts[1].match(/\d/)
HasDigit(str) == \E k \in 1..Len(str) : IsDigit(str[k])

\* parts.length > 1 && (parts[1].match(/\d/) || parts[1].includes("限")
\*                      || parts[1].includes("コマ"))
PeriodDetectedNoSlot(parts) ==
  /\ Len(parts) > 1
  /\ (HasDigit(parts[2]) \/ Includes(parts[2], WordPeriod))

PeriodDetected(parts) ==
  /\ Len(parts) > 1
  /\ \/ HasDigit(parts[2])
     \/ Includes(parts[2], WordPeriod)
     \/ Includes(parts[2], WordSlot)

\* The value of a variable declared and never assigned.
Undefined == <<-1>>

\* JavaScript truthiness of a string | undefined.
Truthy(v) == v # Undefined /\ v # <<>>

\* SYMBOLS[symbol] || "その他"
TypeOf(symbol) ==
  IF symbol \in DOMAIN SYMBOLS THEN SYMBOLS[symbol] ELSE TypeOther

\* date: currentDate || "日付不明"
DateFieldNoSentinel(date) == date

DateField(date) == IF date # <<>> THEN date ELSE DateUnknown

\* raw_text: symbol + content
RawTextFieldUnnormalized(symbol, rawText, content) == rawText

RawTextField(symbol, rawText, content) == <<symbol>> \o content

\* if (subjectFrom && subjectTo) { item.subject_from = ...; item.subject_to = ... }
\* An absent field is a field the record does not have.
WithSubjectChangeEach(item, subjectFrom, subjectTo) ==
  LET a == IF Truthy(subjectFrom)
           THEN item @@ [subject_from |-> subjectFrom] ELSE item
  IN IF Truthy(subjectTo) THEN a @@ [subject_to |-> subjectTo] ELSE a

WithSubjectChange(item, subjectFrom, subjectTo) ==
  IF Truthy(subjectFrom) /\ Truthy(subjectTo)
  THEN item @@ [subject_from |-> subjectFrom, subject_to |-> subjectTo]
  ELSE item

\* The body of `if (symbolMatch) { ... }` up to the item, for a raw text
\* that starts with a marker, under the current date.
BuildItem(rawText, date) ==
  LET symbol == rawText[1]
      content == ContentOf(rawText)
      parts == SplitSpaces(content)
      targetClass == parts[1]
      detected == PeriodDetected(parts)
      period == IF detected THEN parts[2] ELSE <<>>
      subjectStartIndex == IF detected THEN 2 ELSE 1
      subject == Join(SubSeq(parts, subjectStartIndex + 1, Len(parts)), <<32>>)
      splitSubjects == SplitArrows(subject)
      subjectFrom == IF Len(splitSubjects) > 1 THEN splitSubjects[1] ELSE Undefined
      subjectTo == IF Len(splitSubjects) > 1
                   THEN Join(Tail(splitSubjects), <<8658>>) ELSE Undefined
      item == [ date |-> DateField(date),
                type |-> TypeOf(symbol),
                symbol |-> symbol,
                target_class |-> targetClass,
                period |-> period,
                subject |-> subject,
                raw_text |-> RawTextField(symbol, rawText, content) ]
  IN WithSubjectChange(item, subjectFrom, subjectTo)

\* results.push(item)
Unshift(results, item) == <<item>> \o results

Push(results, item) == Append(results, item)

\* One iteration of the loop over the paragraphs: the new value of
\* (currentDate, results).
ProcessParagraph(p, date, res) ==
  IF IsDateLine(p)
  THEN [currentDate |-> NextDate(p), results |-> res]
  ELSE IF SymbolMatch(RawText(p))
       THEN [currentDate |-> date,
             results |-> Push(res, BuildItem(RawText(p), date))]
       ELSE [currentDate |-> date, results |-> res]

\* The whole call: let currentDate = "", results = [], then the loop.
RECURSIVE ParseFrom(_, _, _)
ParseFrom(paragraphs, date, res) ==
  IF paragraphs = <<>> THEN [currentDate |-> date, results |-> res]
  ELSE LET s == ProcessParagraph(paragraphs[1], date, res)
       IN ParseFrom(Tail(paragraphs), s.currentDate, s.results)

parseCancellationHtml(paragraphs) == ParseFrom(paragraphs, <<>>, <<>>).results

(***************************************************************************)
(* Inputs.                                                                 *)
(***************************************************************************)
\* Bounds of the model.
MaxParas == 3
NumCalls == 2
MaxTokenAtoms == 5
MaxArrowAtoms == 4
MaxPairAtoms == 3

Para(text, hasMark) == [text |-> text, hasMark |-> hasMark]

\* "1/6(火)", emphasised: the bulletin's usual date line.
ParaDateMarked == Para(<<Ch.d1, Ch.slash, Ch.d6, Ch.lpar, Ch.ka, Ch.rpar>>, TRUE)
\* " ６／１（火）A", full width, not emphasised: a date line by its pattern.
ParaDateWide ==
  Para(<<Ch.sp, Ch.w6, Ch.wslash, Ch.w1, Ch.wlpar, Ch.ka, Ch.wrpar, Ch.A>>, FALSE)
\* "12/6 日程", with and without emphasis.
ParaSchedule ==
  Para(<<Ch.d1, Ch.d2, Ch.slash, Ch.d6, Ch.sp, Ch.nichi, Ch.tei>>, FALSE)
ParaScheduleMarked ==
  Para(<<Ch.d1, Ch.d2, Ch.slash, Ch.d6, Ch.sp, Ch.nichi, Ch.tei>>, TRUE)
\* "1/6について"
ParaRegarding ==
  Para(<<Ch.d1, Ch.slash, Ch.d6, Ch.ni, Ch.tsu, Ch.i, Ch.te>>, FALSE)
\* An emphasised paragraph with no text, and one with the text "A B".
ParaEmptyMarked == Para(<<Ch.sp>>, TRUE)
ParaTextMarked == Para(<<Ch.A, Ch.sp, Ch.B>>, TRUE)
\* "◉1-A 1限 A"
ParaCancelled ==
  Para(<<Ch.maru, Ch.d1, Ch.minus, Ch.A, Ch.sp, Ch.d1, Ch.gen, Ch.sp, Ch.A>>, FALSE)
\* "☆B A⇒B"
ParaChanged == Para(<<Ch.hoshi, Ch.B, Ch.sp, Ch.A, Ch.darrow, Ch.B>>, FALSE)
\* "◎"
ParaBareSymbol == Para(<<Ch.nijumaru>>, FALSE)
\* "◇A", emphasised.
ParaSymbolMarked == Para(<<Ch.hishi, Ch.A>>, TRUE)
\* "A ◉B": prose that mentions a marker.
ParaProse == Para(<<Ch.A, Ch.sp, Ch.maru, Ch.B>>, FALSE)

Paras ==
  { ParaDateMarked, ParaDateWide, ParaSchedule, ParaScheduleMarked,
    ParaRegarding, ParaEmptyMarked, ParaTextMarked, ParaCancelled,
    ParaChanged, ParaBareSymbol, ParaSymbolMarked, ParaProse }

\* Every document of at most n paragraphs.
RECURSIVE DocsUpTo(_)
DocsUpTo(n) ==
  IF n = 0 THEN {<<>>}
  ELSE DocsUpTo(n - 1) \cup
       {<<p>> \o d : p \in Paras, d \in {e \in DocsUpTo(n - 1) : Len(e) = n - 1}}

\* The documents concurrent calls are given: the same record lines under
\* different dates, and under none.
ConcDocs ==
  { <<ParaDateMarked, ParaCancelled, ParaChanged>>,
    <<ParaCancelled, ParaDateWide, ParaCancelled>>,
    <<ParaProse, ParaCancelled>> }

\* Every concatenation of at most n of the atoms.
RECURSIVE Concats(_, _)
Concats(atoms, n) ==
  IF n = 0 THEN {<<>>}
  ELSE LET shorter == Concats(atoms, n - 1)
       IN shorter \cup {a \o t : a \in atoms, t \in shorter}

\* Record lines "◉..." that exercise the split into tokens and the period.
TokenAtoms == {<<Ch.A>>, <<Ch.w1>>, <<Ch.gen>>, <<Ch.ko, Ch.ma>>, <<Ch.sp>>, <<Ch.wsp>>}
\* Record lines "☆A ..." that exercise the arrow notations in the subject.
ArrowAtoms ==
  { <<Ch.A>>, <<Ch.B>>, <<Ch.sp>>, <<Ch.darrow>>, <<Ch.arrow>>,
    <<Ch.eq, Ch.gt>>, <<Ch.minus, Ch.gt>> }
\* Record lines "◉..." that differ in their whitespace.
PairAtoms == {<<Ch.A>>, <<Ch.w1>>, <<Ch.sp>>, <<Ch.tab>>}

\* "☆A " and "☆A １限　": a class, and a class with a period.
ArrowPrefixes ==
  {<<Ch.hoshi, Ch.A, Ch.sp>>, <<Ch.hoshi, Ch.A, Ch.sp, Ch.w1, Ch.gen, Ch.wsp>>}

Lines ==
  {<<Ch.maru>> \o t : t \in Concats(TokenAtoms, MaxTokenAtoms)} \cup
  {h \o t : h \in ArrowPrefixes, t \in Concats(ArrowAtoms, MaxArrowAtoms)}

PairLines == {<<Ch.maru>> \o t : t \in Concats(PairAtoms, MaxPairAtoms)}

\* What the upstream server can answer.
Statuses == {200, 201, 304, 404, 500}
ServeDocs == ConcDocs \cup {<<>>}
\* invalid: the body is not JSON (json() rejects); null: the JSON value null;
\* object: a JSON object without content; post: a post, content.rendered
\* being the document.
Bodies ==
  {[kind |-> k, rendered |-> <<>>] : k \in {"invalid", "null", "object"}} \cup
  {[kind |-> "post", rendered |-> d] : d \in ServeDocs}
Upstreams ==
  {[net |-> "error", status |-> 0, body |-> [kind |-> "invalid", rendered |-> <<>>]]}
  \cup [net : {"response"}, status : Statuses, body : Bodies]

(***************************************************************************)
(* State.                                                                  *)
(***************************************************************************)
Calls == 1..NumCalls
Slots == 1..2
NoLine == <<>>
NoItem == [none |-> TRUE]

VARIABLES
  \* parseCancellationHtml, per call: the paragraphs $("p") selected, how
  \* many of them the loop has visited, and the call's two locals.
  doc, idx, currentDate, results,
  \* a record line on its own and the item built from it, per slot.
  line, item,
  \* fetchAndParse: where the handler is, what the upstream will answer,
  \* whether this is the handler with the abort timer, the timer, the
  \* exception caught, and the responses returned.
  pc, upstream, withTimer, timer, caught, responses

parserVars == <<doc, idx, currentDate, results>>
lineVars == <<line, item>>
handlerVars == <<pc, upstream, withTimer, timer, caught, responses>>
vars == <<doc, idx, currentDate, results, line, item,
          pc, upstream, withTimer, timer, caught, responses>>

NoCalls ==
  /\ doc = [c \in Calls |-> <<>>]
  /\ idx = [c \in Calls |-> 0]
  /\ currentDate = [c \in Calls |-> <<>>]
  /\ results = [c \in Calls |-> <<>>]

NoLines ==
  /\ line = [s \in Slots |-> NoLine]
  /\ item = [s \in Slots |-> NoItem]

NoRequest ==
  /\ pc = "idle"
  /\ upstream = [net |-> "error", status |-> 0,
                 body |-> [kind |-> "invalid", rendered |-> <<>>]]
  /\ withTimer = FALSE
  /\ timer = "unset"
  /\ caught = "none"
  /\ responses = <<>>

(***************************************************************************)
(* parseCancellationHtml as a process: one loop iteration per step.        *)
(***************************************************************************)
\* The currentDate a call reads is its own local (let currentDate = "").
CallDateShared(c) == currentDate[1]

CallDate(c) == currentDate[c]

ParseStep(c) ==
  /\ idx[c] < Len(doc[c])
  /\ LET s == ProcessParagraph(doc[c][idx[c] + 1], CallDate(c), results[c])
     IN /\ currentDate' = [currentDate EXCEPT ![c] = s.currentDate]
        /\ results' = [results EXCEPT ![c] = s.results]
  /\ idx' = [idx EXCEPT ![c] = idx[c] + 1]
  /\ UNCHANGED <<doc, lineVars, handlerVars>>

\* Entry of a call: const results = []; let currentDate = "".
CallsEntered(docs) ==
  /\ doc \in docs
  /\ idx = [c \in Calls |-> 0]
  /\ currentDate = [c \in Calls |-> <<>>]
  /\ results = [c \in Calls |-> <<>>]

\* One call, on any document.
Init ==
  /\ CallsEntered({[c \in Calls |-> IF c = 1 THEN d ELSE <<>>] : d \in DocsUpTo(MaxParas)})
  /\ NoLines
  /\ NoRequest

Next == \E c \in Calls : ParseStep(c)

Spec == Init /\ [][Next]_vars

\* Concurrent calls, interleaved paragraph by paragraph.
InitConc ==
  /\ CallsEntered([Calls -> ConcDocs])
  /\ NoLines
  /\ NoRequest

SpecConc == InitConc /\ [][Next]_vars

(***************************************************************************)
(* A record line on its own.                                               *)
(***************************************************************************)
ParseLine(s) ==
  /\ line[s] # NoLine
  /\ item[s] = NoItem
  /\ SymbolMatch(Trim(line[s]))
  /\ item' = [item EXCEPT ![s] = BuildItem(Trim(line[s]), <<>>)]
  /\ UNCHANGED <<line, parserVars, handlerVars>>

InitLine ==
  /\ line \in {[s \in Slots |-> IF s = 1 THEN l ELSE NoLine] : l \in Lines}
  /\ item = [s \in Slots |-> NoItem]
  /\ NoCalls
  /\ NoRequest

NextLine == \E s \in Slots : ParseLine(s)

SpecLine == InitLine /\ [][NextLine]_vars

\* Two record lines, parsed side by side.
ParsePair ==
  /\ \A s \in Slots : line[s] # NoLine /\ item[s] = NoItem
  /\ item' = [s \in Slots |-> BuildItem(Trim(line[s]), <<>>)]
  /\ UNCHANGED <<line, parserVars, handlerVars>>

InitPair ==
  /\ line \in [Slots -> PairLines]
  /\ item = [s \in Slots |-> NoItem]
  /\ NoCalls
  /\ NoRequest

NextPair == ParsePair

SpecPair == InitPair /\ [][NextPair]_vars

(***************************************************************************)
(* fetchAndParse.  pc is the handler's position:                           *)
(*   start  - entering the try block                                       *)
(*   fetch  - awaiting fetch(targetUrl)                                    *)
(*   status - wpResponse received, timer cleared                           *)
(*   json   - awaiting wpResponse.json()                                   *)
(*   parse  - wpData received                                              *)
(*   catch  - in the catch block                                           *)
(*   done   - returned                                                     *)
(* The timer is the setTimeout(() => controller.abort(), 8000) of          *)
(* part_000; the handler of index.ts sets none.                            *)
(***************************************************************************)
\* c.json(body, status): the response the handler returns.
Respond(status, body) == Append(responses, [status |-> status, body |-> body])

\* wpResponse.ok
Ok(status) == status \in 200..299

\* The catch block: 504 for the abort, 500 for the rest.
CatchStatusAlways500(error) == 500

CatchStatus(error) == IF error = "AbortError" THEN 504 ELSE 500

\* The status returned for a response that is not ok.
NotOkStatusAlways502(status) == 502

NotOkStatus(status) == IF status = 404 THEN 404 ELSE 502

\* try { ...; const timeoutId = setTimeout(...); fetch(targetUrl, ...)
Start ==
  /\ pc = "start"
  /\ pc' = "fetch"
  /\ timer' = IF withTimer THEN "armed" ELSE "unset"
  /\ UNCHANGED <<upstream, withTimer, caught, responses, parserVars, lineVars>>

\* fetch resolves with the upstream's response; clearTimeout(timeoutId).
FetchFulfil ==
  /\ pc = "fetch"
  /\ upstream.net = "response"
  /\ pc' = "status"
  /\ timer' = IF timer = "armed" THEN "cleared" ELSE timer
  /\ UNCHANGED <<upstream, withTimer, caught, responses, parserVars, lineVars>>

\* fetch rejects (a network failure): a TypeError, caught.
FetchReject ==
  /\ pc = "fetch"
  /\ upstream.net = "error"
  /\ pc' = "catch"
  /\ caught' = "TypeError"
  /\ UNCHANGED <<upstream, withTimer, timer, responses, parserVars, lineVars>>

\* The 8000 ms pass before the timer is cleared: controller.abort().  A
\* pending fetch rejects with an AbortError; a settled one is not affected.
TimerFire ==
  /\ timer = "armed"
  /\ timer' = "fired"
  /\ IF pc = "fetch"
     THEN pc' = "catch" /\ caught' = "AbortError"
     ELSE UNCHANGED <<pc, caught>>
  /\ UNCHANGED <<upstream, withTimer, responses, parserVars, lineVars>>

\* if (!wpResponse.ok) { 404 or 502 }
CheckStatus ==
  /\ pc = "status"
  /\ IF Ok(upstream.status)
     THEN pc' = "json" /\ UNCHANGED responses
     ELSE /\ pc' = "done"
          /\ responses' = Respond(NotOkStatus(upstream.status), "error")
  /\ UNCHANGED <<upstream, withTimer, timer, caught, parserVars, lineVars>>

\* await wpResponse.json(): rejects with a SyntaxError when the body is
\* not JSON.
ReadJson ==
  /\ pc = "json"
  /\ IF upstream.body.kind = "invalid"
     THEN pc' = "catch" /\ caught' = "SyntaxError"
     ELSE pc' = "parse" /\ UNCHANGED caught
  /\ UNCHANGED <<upstream, withTimer, timer, responses, parserVars, lineVars>>

\* wpData.content?.rendered || "": a TypeError when wpData is null, "" when
\* the object has no content.
Rendered(body) == IF body.kind = "post" THEN body.rendered ELSE <<>>

\* parseCancellationHtml(...) and the envelope; the call is synchronous,
\* so it is one step of the handler.
ParseAndRespond ==
  /\ pc = "parse"
  /\ IF upstream.body.kind = "null"
     THEN pc' = "catch" /\ caught' = "TypeError" /\ UNCHANGED responses
     ELSE /\ pc' = "done"
          /\ responses' =
               Respond(200, [data |-> parseCancellationHtml(Rendered(upstream.body))])
          /\ UNCHANGED caught
  /\ UNCHANGED <<upstream, withTimer, timer, parserVars, lineVars>>

\* catch (error) { ... }: the handler of index.ts answers 500 whatever the
\* error, that of part_000 tells the abort apart.
Catch ==
  /\ pc = "catch"
  /\ pc' = "done"
  /\ responses' = Respond(IF withTimer THEN CatchStatus(caught) ELSE 500, "error")
  /\ UNCHANGED <<upstream, withTimer, timer, caught, parserVars, lineVars>>

InitServe ==
  /\ pc = "start"
  /\ upstream \in Upstreams
  /\ withTimer \in BOOLEAN
  /\ timer = "unset"
  /\ caught = "none"
  /\ responses = <<>>
  /\ NoCalls
  /\ NoLines

NextServe ==
  \/ Start
  \/ FetchFulfil
  \/ FetchReject
  \/ TimerFire
  \/ CheckStatus
  \/ ReadJson
  \/ ParseAndRespond
  \/ Catch

SpecServe == InitServe /\ [][NextServe]_vars

(***************************************************************************)
(* Properties of a call on a document (Spec, SpecConc).                    *)
(***************************************************************************)
\* A record paragraph: not a date line, and its raw text begins with one
\* of the four marker symbols.
IsRecordPara(p) ==
  ~IsDateLine(p) /\ RawText(p) # <<>> /\ RawText(p)[1] \in MarkerSymbols

\* A paragraph that is neither a date line nor a record paragraph.
IsIgnoredPara(p) == ~IsDateLine(p) /\ ~IsRecordPara(p)

\* The positions, in increasing order, of the record paragraphs among the
\* first n paragraphs of d.
RECURSIVE RecordPositions(_, _)
RecordPositions(d, n) ==
  IF n = 0 THEN <<>>
  ELSE IF IsRecordPara(d[n]) THEN Append(RecordPositions(d, n - 1), n)
  ELSE RecordPositions(d, n - 1)

\* The position of the last date paragraph before position k, 0 if none.
LastDatePosition(d, k) ==
  LET before == {j \in 1..(k - 1) : IsDateLine(d[j])}
  IN IF before = {} THEN 0
     ELSE CHOOSE j \in before : \A i \in before : i <= j

\* d without its ignored paragraphs.
RECURSIVE WithoutIgnored(_)
WithoutIgnored(d) ==
  IF d = <<>> THEN <<>>
  ELSE IF IsIgnoredPara(d[1]) THEN WithoutIgnored(Tail(d))
  ELSE <<d[1]>> \o WithoutIgnored(Tail(d))

\* C1 as claimed: every emitted record's date is the value the most recent
\* date paragraph before it assigned to currentDate, and the sentinel
\* "日付不明" when no date paragraph precedes it.
C1_DateIsLastAssigned ==
  \A c \in Calls :
    LET pos == RecordPositions(doc[c], idx[c])
    IN /\ Len(results[c]) = Len(pos)
       /\ \A m \in 1..Len(pos) :
            LET j == LastDatePosition(doc[c], pos[m])
            IN results[c][m].date =
                 IF j = 0 THEN DateUnknown ELSE NextDate(doc[c][j])

\* C1 as amended: every emitted record's date is the value the most recent
\* date paragraph before it assigned to currentDate when that value is not
\* empty, and the sentinel "日付不明" when no date paragraph precedes it or
\* when the value assigned is the empty string.
C1_DateIsLastAssignedOrSentinel ==
  \A c \in Calls :
    LET pos == RecordPositions(doc[c], idx[c])
    IN /\ Len(results[c]) = Len(pos)
       /\ \A m \in 1..Len(pos) :
            LET j == LastDatePosition(doc[c], pos[m])
            IN results[c][m].date =
                 IF j = 0 \/ NextDate(doc[c][j]) = <<>>
                 THEN DateUnknown ELSE NextDate(doc[c][j])

\* A record before any date paragraph (sentinel) and a record after one
\* (that paragraph's date) in the same document.
C1_Witness ==
  /\ Len(doc[1]) = 3 /\ idx[1] = 3
  /\ IsRecordPara(doc[1][1]) /\ IsDateLine(doc[1][2]) /\ IsRecordPara(doc[1][3])
  /\ Len(results[1]) = 2
  /\ results[1][1].date = DateUnknown
  /\ results[1][2].date = NextDate(doc[1][2])
  /\ results[1][2].date # DateUnknown

\* The paragraph a step of call c processes starts with digits/digits and
\* contains "日程".
IsScheduleLike(p) ==
  /\ DateMatchLen(NormalizedText(p)) > 0
  /\ Includes(NormalizedText(p), WordSchedule)

\* C2 as claimed: a paragraph, with or without an emphasis marker, whose
\* normalized text starts with digits/digits and contains "日程" is not
\* treated as a date line, and currentDate after it equals currentDate
\* before it.
C2_ScheduleNeverDate ==
  [][\A c \in Calls :
       (idx'[c] = idx[c] + 1 /\ IsScheduleLike(doc[c][idx[c] + 1]))
         => /\ ~IsDateLine(doc[c][idx[c] + 1])
            /\ currentDate'[c] = currentDate[c]
            /\ results'[c] = results[c]]_vars

\* C2 as amended: a paragraph without an emphasis marker whose normalized
\* text starts with digits/digits and contains "日程" is not treated as a
\* date line, and currentDate after it equals currentDate before it.
C2_UnmarkedScheduleNeverDate ==
  [][\A c \in Calls :
       (/\ idx'[c] = idx[c] + 1
        /\ IsScheduleLike(doc[c][idx[c] + 1])
        /\ ~doc[c][idx[c] + 1].hasMark)
         => /\ ~IsDateLine(doc[c][idx[c] + 1])
            /\ currentDate'[c] = currentDate[c]
            /\ results'[c] = results[c]]_vars

\* An unmarked "12/6 日程" has just been processed after a date line, and
\* the date of that date line is still the current one.
C2_Witness ==
  /\ idx[1] = 2
  /\ IsDateLine(doc[1][1])
  /\ IsScheduleLike(doc[1][2]) /\ ~doc[1][2].hasMark
  /\ currentDate[1] = NextDate(doc[1][1])
  /\ currentDate[1] # <<>>

\* C5: the paragraphs are visited once, first to last; each contributes at
\* most one record; the output holds the records in the order of the
\* paragraphs that produced them: after n paragraphs, the m-th record is the
\* record of the m-th record paragraph among the first n.
C5_RecordsInParagraphOrder ==
  \A c \in Calls :
    LET pos == RecordPositions(doc[c], idx[c])
    IN /\ idx[c] \in 0..Len(doc[c])
       /\ Len(results[c]) = Len(pos)
       /\ Len(results[c]) <= idx[c]
       /\ \A m \in 1..Len(pos) :
            /\ m <= Len(results[c])
            /\ results[c][m] =
                 BuildItem(RawText(doc[c][pos[m]]), results[c][m].date)

\* Two different records, from two different paragraphs, in a finished call.
C5_Witness ==
  /\ idx[1] = Len(doc[1])
  /\ Len(results[1]) >= 2
  /\ results[1][1].raw_text # results[1][2].raw_text

\* C6: a paragraph that is not a date line and whose raw text does not
\* begin with a marker symbol appends no record and leaves currentDate
\* unchanged: after any number of paragraphs, currentDate and the records
\* are those of the same paragraphs with the ignored ones removed.
C6_IgnoredParagraphsHaveNoEffect ==
  \A c \in Calls :
    ParseFrom(WithoutIgnored(SubSeq(doc[c], 1, idx[c])), <<>>, <<>>) =
      [currentDate |-> currentDate[c], results |-> results[c]]

\* A date line, an ignored paragraph, then a record that carries the date.
C6_Witness ==
  /\ idx[1] = 3
  /\ IsDateLine(doc[1][1]) /\ IsIgnoredPara(doc[1][2]) /\ IsRecordPara(doc[1][3])
  /\ Len(results[1]) = 1
  /\ results[1][1].date = NextDate(doc[1][1])
  /\ results[1][1].date # DateUnknown

\* The dates the date paragraphs among the first n paragraphs of d assign.
DatesOf(d, n) == {NextDate(d[j]) : j \in {i \in 1..n : IsDateLine(d[i])}}

\* C7: when the parse calls of concurrent requests are interleaved in any
\* order, each call's currentDate and records are those a lone call on its
\* document has after the same number of paragraphs, and every record's
\* date is the sentinel or a date of the call's own document.
C7_CallsAreIsolated ==
  \A c \in Calls :
    /\ ParseFrom(SubSeq(doc[c], 1, idx[c]), <<>>, <<>>) =
         [currentDate |-> currentDate[c], results |-> results[c]]
    /\ \A m \in 1..Len(results[c]) :
         results[c][m].date \in {DateUnknown} \cup DatesOf(doc[c], idx[c])

\* Two calls on different documents, both in the middle of their loops,
\* holding different dates.
C7_Witness ==
  /\ doc[1] # doc[2]
  /\ 0 < idx[1] /\ idx[1] < Len(doc[1])
  /\ 0 < idx[2] /\ idx[2] < Len(doc[2])
  /\ currentDate[1] # <<>> /\ currentDate[2] # <<>>
  /\ currentDate[1] # currentDate[2]

(***************************************************************************)
(* Properties of a record line (SpecLine, SpecPair).                       *)
(***************************************************************************)
Has(it, f) == f \in DOMAIN it

\* C3 as claimed: if splitting the subject on the arrow notations yields
\* more than one segment, the record carries subject_from, the first
\* segment, and subject_to, the remaining segments rejoined with "⇒"; if it
\* yields exactly one segment, both fields are absent.
C3_ArrowSplitSetsBothFields ==
  \A s \in Slots :
    item[s] # NoItem =>
      LET segs == SplitArrows(item[s].subject)
      IN IF Len(segs) > 1
         THEN /\ Has(item[s], "subject_from")
              /\ Has(item[s], "subject_to")
              /\ item[s].subject_from = segs[1]
              /\ item[s].subject_to = Join(Tail(segs), <<Ch.darrow>>)
         ELSE ~Has(item[s], "subject_from") /\ ~Has(item[s], "subject_to")

\* C4: in every record, subject_from and subject_to are both present or
\* both absent.
C4_SubjectChangeBothOrNeither ==
  \A s \in Slots :
    item[s] # NoItem =>
      (Has(item[s], "subject_from") <=> Has(item[s], "subject_to"))

\* A record whose subject held an arrow between two non-empty names.
C4_Witness ==
  /\ item[1] # NoItem
  /\ Has(item[1], "subject_from") /\ Has(item[1], "subject_to")
  /\ item[1].subject_from = <<Ch.A>>
  /\ item[1].subject_to = <<Ch.B>>

\* The whitespace-delimited tokens of a text: its maximal runs of
\* characters that are not whitespace, in order.
TokenStarts(str) ==
  {k \in 1..Len(str) : ~IsSpace(str[k]) /\ (k = 1 \/ IsSpace(str[k - 1]))}

TokenEnd(str, k) ==
  CHOOSE e \in k..Len(str) :
    /\ \A x \in k..e : ~IsSpace(str[x])
    /\ e = Len(str) \/ IsSpace(str[e + 1])

NthTokenStart(str, n) ==
  CHOOSE k \in TokenStarts(str) :
    Cardinality({x \in TokenStarts(str) : x < k}) = n - 1

Tokens(str) ==
  [n \in 1..Cardinality(TokenStarts(str)) |->
     SubSeq(str, NthTokenStart(str, n), TokenEnd(str, NthTokenStart(str, n)))]

\* A token that contains a digit, or "限", or "コマ".
LooksLikePeriod(tok) ==
  \/ \E k \in 1..Len(tok) : tok[k] \in 48..57
  \/ \E k \in 1..Len(tok) : tok[k] = Ch.gen
  \/ \E k \in 1..(Len(tok) - 1) : tok[k] = Ch.ko /\ tok[k + 1] = Ch.ma

\* C9: with parts the whitespace-delimited tokens of the normalized
\* content, target_class is parts[0] ("" if there are no tokens); if there
\* are at least 2 tokens and parts[1] contains a digit, "限" or "コマ", then
\* period is parts[1] and subject is parts[2..] joined by single spaces;
\* otherwise period is "" and subject is parts[1..] joined by single spaces.
C9_TokensToFields ==
  \A s \in Slots :
    item[s] # NoItem =>
      LET parts == Tokens(ContentOf(Trim(line[s])))
          n == Len(parts)
      IN /\ item[s].target_class = IF n = 0 THEN <<>> ELSE parts[1]
         /\ IF n >= 2 /\ LooksLikePeriod(parts[2])
            THEN /\ item[s].period = parts[2]
                 /\ item[s].subject = Join(SubSeq(parts, 3, n), <<Ch.sp>>)
            ELSE /\ item[s].period = <<>>
                 /\ item[s].subject = Join(SubSeq(parts, 2, n), <<Ch.sp>>)

\* "◉A コマ A" or the like: a period by the word "コマ" alone, then a subject.
C9_Witness ==
  /\ item[1] # NoItem
  /\ item[1].target_class = <<Ch.A>>
  /\ item[1].period = WordSlot
  /\ item[1].subject = <<Ch.A>>

\* A text with every run of whitespace replaced by a single space.
RECURSIVE CollapseSpaces(_)
CollapseSpaces(str) ==
  IF str = <<>> THEN <<>>
  ELSE IF IsSpace(str[1]) THEN <<Ch.sp>> \o CollapseSpaces(TrimStart(str))
  ELSE <<str[1]>> \o CollapseSpaces(Tail(str))

SameFields(a, b) ==
  /\ a.symbol = b.symbol
  /\ a.target_class = b.target_class
  /\ a.period = b.period
  /\ a.subject = b.subject

\* raw_text is the symbol followed by the normalized content after it.
RawTextIsSymbolAndContent(s) ==
  LET raw == Trim(line[s])
      rest == Trim(SubSeq(raw, 2, Len(raw)))
  IN /\ Len(item[s].raw_text) = 1 + Len(rest)
     /\ item[s].raw_text[1] = item[s].symbol
     /\ \A k \in 1..Len(rest) : item[s].raw_text[k + 1] = HalfWidthChar(rest[k])

\* C10 as claimed: raw_text is the symbol followed by the normalized
\* content, and any two record lines that produce the same symbol,
\* target_class, period and subject produce the same raw_text.
C10_RawTextReproducible ==
  (\A s \in Slots : item[s] # NoItem) =>
    /\ \A s \in Slots : RawTextIsSymbolAndContent(s)
    /\ SameFields(item[1], item[2]) => item[1].raw_text = item[2].raw_text

\* C10 as amended: raw_text is the symbol followed by the normalized
\* content, and any two record lines that produce the same symbol,
\* target_class, period and subject produce raw_texts that are equal once
\* every run of whitespace in them is replaced by a single space.
C10_RawTextReproducibleUpToSpaces ==
  (\A s \in Slots : item[s] # NoItem) =>
    /\ \A s \in Slots : RawTextIsSymbolAndContent(s)
    /\ SameFields(item[1], item[2]) =>
         CollapseSpaces(item[1].raw_text) = CollapseSpaces(item[2].raw_text)

\* Two record lines with the same fields, a period among them, and
\* different raw_texts.
C10_Witness ==
  /\ \A s \in Slots : item[s] # NoItem
  /\ SameFields(item[1], item[2])
  /\ item[1].period # <<>>
  /\ item[1].raw_text # item[2].raw_text

(***************************************************************************)
(* Properties of fetchAndParse (SpecServe).                                *)
(***************************************************************************)
\* The status the claim gives for the outcome of the upstream fetch.
ClaimedStatus ==
  IF caught = "AbortError" THEN 504
  ELSE IF upstream.net = "error" THEN 500
  ELSE IF upstream.status = 404 THEN 404
  ELSE IF upstream.status \notin 200..299 THEN 502
  ELSE IF upstream.body.kind \in {"invalid", "null"} THEN 500
  ELSE 200

\* The handler has a step to take.  ParseAndRespond has no guard but its
\* position; the other steps are asked of the actions themselves.
CanStep ==
  \/ pc = "parse"
  \/ ENABLED (Start \/ FetchFulfil \/ FetchReject \/ TimerFire
                \/ CheckStatus \/ ReadJson \/ Catch)

=============================================================================
